---- MODULE Spec2Model ----
(***************************************************************************)
(* Bitwise-AND circuit of src/main.rs (halo2 AndChip / MyCircuit).         *)
(*                                                                         *)
(* Field elements of Fp are modelled by integers: a non-negative integer v *)
(* stands for the field element v, a negative integer -v for p - v.  All   *)
(* values that occur are far below the 255-bit modulus p, so field         *)
(* addition and equality coincide with integer addition and equality.      *)
(***************************************************************************)
EXTENDS Integers, Sequences, FiniteSets, TLC

VARIABLES
    a, b,         \* MyCircuit.a, MyCircuit.b : Option<Fp>
    pub,          \* the instance column at row 0 as verify reads it, or None
    pc,           \* position inside MockProver::run / synthesize / verify
    table,        \* the even_bits table column, row i at index i + 1
    tableBuilds,  \* number of assign_table calls performed
    advice,       \* assigned advice cells: <<column, row>> -> value
    selectors,    \* enabled selectors: set of <<selector, row>>
    copies,       \* equality constraints: set of <<cell, cell>>
    colNext,      \* the floor planner's first free row of every column
    regions,      \* names of the regions assigned so far, in order
    words,        \* Word handles: name -> [cell, value]
    err,          \* the Result of synthesize: "none" or "Synthesis"
    failures,     \* the failures MockProver::verify reports
    result,       \* "pending", "accepted" or "rejected"
    forge,        \* a prover-chosen decomposition witness, or None
    fx, fop, fout \* pure-function harness: input, function applied, output

vars == <<a, b, pub, pc, table, tableBuilds, advice, selectors, copies,
          colNext, regions, words, err, failures, result, forge, fx, fop, fout>>

circuitVars == <<table, tableBuilds, advice, selectors, copies, colNext,
                 regions, words, err, failures, result>>

\* Option<T>: None is the empty sequence, Some(v) the sequence <<v>>.
None == <<>>

Some(v) == <<v>>

WORD_BITS == 8

K == 5

(***************************************************************************)
(* Bounds of the model.                                                    *)
(***************************************************************************)
MaxPubOff == 1       \* public inputs tried: a & b - MaxPubOff .. a & b + MaxPubOff
FnBits == 16         \* the pure-function harness draws inputs below 2^FnBits
SpreadBits == 8      \* even_bits_at is applied to inputs below 2^SpreadBits
MaxForgeOdd == 90    \* forged odd components range over 0 .. MaxForgeOdd
ForgeSlack == 1      \* forged even components miss c - 2*odd by at most this
MaxOver == 31        \* out-of-range inputs 2^W .. 2^W + MaxOver are tried
MaxOverBits == 20    \* and out-of-range inputs 2^n + m for W < n <= MaxOverBits

Words == 0 .. (2^WORD_BITS - 1)

Max(S) == CHOOSE x \in S : \A y \in S : y <= x

Range(s) == {s[i] : i \in DOMAIN s}

(***************************************************************************)
(* Bit operations of Rust's integer types.                                 *)
(***************************************************************************)
RECURSIVE BitAnd(_, _)
BitAnd(x, y) ==
    IF x = 0 \/ y = 0 THEN 0
    ELSE (x % 2) * (y % 2) + 2 * BitAnd(x \div 2, y \div 2)

\* to_repr() of a field element, each little-endian byte and-ed with mask,
\* read back with from_repr().
RECURSIVE MaskBytes(_, _)
MaskBytes(x, mask) ==
    IF x = 0 THEN 0
    ELSE BitAnd(x % 256, mask) + 256 * MaskBytes(x \div 256, mask)

\* A mutant of decompose: the odd bits are not shifted down.
decompose_noshift(word) == <<MaskBytes(word, 85), MaskBytes(word, 170)>>

\* A mutant of decompose: the even mask drops bit 0 of every byte.
decompose_badmask(word) == <<MaskBytes(word, 84), MaskBytes(word, 170) \div 2>>

\* decompose(word) = (even_only, odd_only >> 1).  get_lower_128 and
\* from_u128 are the identity on the values of the model (all below 2^31).
decompose(word) == <<MaskBytes(word, 85), MaskBytes(word, 170) \div 2>>

\* A mutant of even_bits_at: digits are spaced one bit apart (2^c for 4^c).
RECURSIVE even_bits_dense(_, _, _)
even_bits_dense(i, r, c) ==
    IF i = 0 THEN r
    ELSE even_bits_dense(i \div 2, r + (i % 2) * 2^c, c + 1)

\* The loop of even_bits_at: state (i, r, c).
RECURSIVE even_bits_loop(_, _, _)
even_bits_loop(i, r, c) ==
    IF i = 0 THEN r
    ELSE even_bits_loop(i \div 2, r + (i % 2) * 4^c, c + 1)

even_bits_at(i) == even_bits_loop(i, 0, 0)

\* A mutant of compose_value: the odd component is not doubled.
compose_value_plain(x, y) == x + y

\* The value compose assigns to its output cell: a + 2 * b.
compose_value(x, y) == x + 2 * y

\* A mutant of add_value: the right operand is doubled, as in compose.
add_value_doubled(x, y) == x + 2 * y

\* The value add assigns to its output cell: a + b.
add_value(x, y) == x + y

(***************************************************************************)
(* The constraint system AndChip::configure declares.                      *)
(***************************************************************************)
Columns == {"advice0", "advice1", "s_add", "s_decompose", "s_compose"}

Rows == 0 .. (2^K - 1)

(***************************************************************************)
(* The layouter: a region starts at the first row at which all the columns *)
(* it uses are free, and occupies max offset + 1 rows of them.             *)
(***************************************************************************)
RegionStart(cols) == Max({colNext[c] : c \in cols})

\* assigns: set of <<column, offset, value>>; sels: set of <<selector, offset>>;
\* cps: set of <<source cell, column, offset>>; outs: name -> <<column, offset, value>>
AssignRegion(name, assigns, sels, cps, outs) ==
    LET cols  == {x[1] : x \in assigns} \cup {s[1] : s \in sels}
        rows  == 1 + Max({x[2] : x \in assigns} \cup {s[2] : s \in sels})
        start == RegionStart(cols)
        new   == {<<x[1], start + x[2]>> : x \in assigns}
        valueAt(cell) ==
            (CHOOSE x \in assigns : <<x[1], start + x[2]>> = cell)[3]
    IN  /\ advice' = [cell \in DOMAIN advice \cup new |->
                         IF cell \in new THEN valueAt(cell) ELSE advice[cell]]
        /\ selectors' = selectors \cup {<<s[1], start + s[2]>> : s \in sels}
        /\ copies' = copies \cup {<<cp[1], <<cp[2], start + cp[3]>>>> : cp \in cps}
        /\ colNext' = [c \in Columns |->
                          IF c \in cols THEN start + rows ELSE colNext[c]]
        /\ regions' = Append(regions, name)
        /\ words' = [w \in DOMAIN outs |->
                        [cell  |-> <<outs[w][1], start + outs[w][2]>>,
                         value |-> outs[w][3]]] @@ words

(***************************************************************************)
(* AndChip: the table and the five instructions.                           *)
(***************************************************************************)
alloc_table ==
    /\ table' = [i \in 1 .. 2^(WORD_BITS \div 2) |-> even_bits_at(i - 1)]
    /\ tableBuilds' = tableBuilds + 1
    /\ UNCHANGED <<advice, selectors, copies, colNext, regions, words, err,
                   failures, result>>

\* A mutant of load_private: the value is assigned at offset 1.
load_private_off1(w, value) ==
    IF value = None
    THEN /\ err' = "Synthesis"
         /\ UNCHANGED <<table, tableBuilds, advice, selectors, copies, colNext,
                        regions, words, failures, result>>
    ELSE /\ AssignRegion("load private", {<<"advice0", 1, value[1]>>}, {}, {},
                         (w :> <<"advice0", 1, value[1]>>))
         /\ UNCHANGED <<table, tableBuilds, err, failures, result>>

\* A mutant of load_private: an absent value is loaded as zero.
load_private_default(w, value) ==
    LET v == IF value = None THEN 0 ELSE value[1]
    IN  /\ AssignRegion("load private", {<<"advice0", 0, v>>}, {}, {},
                        (w :> <<"advice0", 0, v>>))
        /\ UNCHANGED <<table, tableBuilds, err, failures, result>>

load_private(w, value) ==
    IF value = None
    THEN /\ err' = "Synthesis"
         /\ UNCHANGED <<table, tableBuilds, advice, selectors, copies, colNext,
                        regions, words, failures, result>>
    ELSE /\ AssignRegion("load private", {<<"advice0", 0, value[1]>>}, {}, {},
                         (w :> <<"advice0", 0, value[1]>>))
         /\ UNCHANGED <<table, tableBuilds, err, failures, result>>

add(x, y, out) ==
    LET value == add_value(words[x].value, words[y].value)
    IN  /\ AssignRegion("add",
                        {<<"advice0", 0, words[x].value>>,
                         <<"advice1", 0, words[y].value>>,
                         <<"advice0", 1, value>>},
                        {<<"s_add", 0>>},
                        {<<words[x].cell, "advice0", 0>>,
                         <<words[y].cell, "advice1", 0>>},
                        (out :> <<"advice0", 1, value>>))
        /\ UNCHANGED <<table, tableBuilds, err, failures, result>>

\* The region of verify_decompose, for the witness o_oe = (even, odd).
decompose_region(c, e, o, o_oe) ==
    /\ AssignRegion("decompose",
                    {<<"advice0", 0, o_oe[1]>>,
                     <<"advice1", 0, o_oe[2]>>,
                     <<"advice0", 1, words[c].value>>},
                    {<<"s_decompose", 0>>},
                    {<<words[c].cell, "advice0", 1>>},
                    (e :> <<"advice0", 0, o_oe[1]>>) @@
                    (o :> <<"advice1", 0, o_oe[2]>>))
    /\ UNCHANGED <<table, tableBuilds, err, failures, result>>

verify_decompose(c, e, o) ==
    decompose_region(c, e, o, decompose(words[c].value))

compose(x, y, out) ==
    LET value == compose_value(words[x].value, words[y].value)
    IN  /\ AssignRegion("compose",
                        {<<"advice0", 0, words[x].value>>,
                         <<"advice1", 0, words[y].value>>,
                         <<"advice0", 1, value>>},
                        {<<"s_compose", 0>>},
                        {<<words[x].cell, "advice0", 0>>,
                         <<words[y].cell, "advice1", 0>>},
                        (out :> <<"advice0", 1, value>>))
        /\ UNCHANGED <<table, tableBuilds, err, failures, result>>

\* A mutant of expose_public: no constraint is added.
expose_public_unbound(num, row) ==
    UNCHANGED <<copies, table, tableBuilds, advice, selectors, colNext, regions,
                words, err, failures, result>>

expose_public(num, row) ==
    /\ copies' = copies \cup {<<words[num].cell, <<"instance", row>>>>}
    /\ UNCHANGED <<table, tableBuilds, advice, selectors, colNext, regions,
                   words, err, failures, result>>

(***************************************************************************)
(* MockProver::verify: every gate on every row, both lookups on every row, *)
(* every equality constraint.                                              *)
(***************************************************************************)
\* The value of a cell; unassigned cells and instance rows past the public
\* inputs hold zero.
Val(cell) ==
    IF cell[1] = "instance"
    THEN (IF cell[2] = 0 /\ pub # None THEN pub[1] ELSE 0)
    ELSE IF cell \in DOMAIN advice THEN advice[cell] ELSE 0

\* A selector queried at row r: 1 where it is enabled, 0 elsewhere.  The
\* product s * e of a selector and an expression is e on the rows where the
\* selector is enabled and 0 on all others.
Times(s, r, e) == IF <<s, r>> \in selectors THEN e ELSE 0

\* The cells a gate queries at row r: advice[0] and advice[1] at
\* Rotation::cur(), advice[0] at Rotation::next().
lhs(r) == Val(<<"advice0", r>>)
rhs(r) == Val(<<"advice1", r>>)
out(r) == Val(<<"advice0", r + 1>>)

\* s_add * (lhs + rhs - out)
add_gate(r) == Times("s_add", r, lhs(r) + rhs(r) - out(r))

\* s_decompose * (lhs + 2 * rhs - out)
decompose_gate(r) == Times("s_decompose", r, lhs(r) + 2 * rhs(r) - out(r))

\* s_compose * (lhs + 2 * rhs - out)
compose_gate(r) == Times("s_compose", r, lhs(r) + 2 * rhs(r) - out(r))

\* A mutant of the second lookup: advice[1] is not looked up (the input is
\* constantly zero).
lookup_odd_missing(r) == 0

\* The input expressions of the two lookups: s_decompose * advice[0] and
\* s_decompose * advice[1].
\* A mutant of the first lookup: advice[0] is not looked up (the input is
\* constantly zero).
lookup_even_missing(r) == 0

lookup_even(r) == Times("s_decompose", r, lhs(r))

lookup_odd(r) == Times("s_decompose", r, rhs(r))

GateFailures ==
    {<<"gate", "add", r>> : r \in {r \in Rows : add_gate(r) # 0}}
    \cup
    {<<"gate", "decompose", r>> : r \in {r \in Rows : decompose_gate(r) # 0}}
    \cup
    {<<"gate", "compose", r>> : r \in {r \in Rows : compose_gate(r) # 0}}

LookupFailures ==
    LET even_bits == Range(table)
    IN  {<<"lookup", "advice0", r>> : r \in {r \in Rows :
            lookup_even(r) \notin even_bits}}
        \cup
        {<<"lookup", "advice1", r>> : r \in {r \in Rows :
            lookup_odd(r) \notin even_bits}}

PermutationFailures ==
    {<<"permutation", cp[1], cp[2]>> : cp \in {cp \in copies :
        Val(cp[1]) # Val(cp[2])}}

\* prover.verify() against the instance column [public_input].
verify(public_input) ==
    /\ pub' = Some(public_input)
    /\ UNCHANGED <<table, tableBuilds, advice, selectors, copies, colNext,
                   regions, words, err>>
    /\ failures' = GateFailures' \cup LookupFailures' \cup PermutationFailures'
    /\ result' = IF failures' = {} THEN "accepted" ELSE "rejected"

(***************************************************************************)
(* MockProver::run(k, &circuit, vec![public_inputs]).unwrap() followed by  *)
(* prover.verify(): the steps of MyCircuit::synthesize in order.  An Err   *)
(* returned by a step leaves synthesize through `?`.                       *)
(***************************************************************************)
\* The public inputs tried for private inputs (x, y): x & y and its neighbours
\* (a negative value stands for the field element p - |value|).
PubChoices(x, y) ==
    IF x = None \/ y = None THEN {0}
    ELSE {BitAnd(x[1], y[1]) + d : d \in (-MaxPubOff) .. MaxPubOff}

Step(here, op, next) ==
    /\ pc = here
    /\ op
    /\ pc' = IF err' = "none" THEN next ELSE "failed"
    /\ UNCHANGED <<a, b, forge, fx, fop, fout>>

\* A step of synthesize: the instance column is not read.
Synth(here, op, next) == Step(here, op, next) /\ UNCHANGED pub

AllocTable == Synth("alloc_table", alloc_table, "load_a")
LoadA == Synth("load_a", load_private("a", a), "load_b")
LoadB == Synth("load_b", load_private("b", b), "a_decomposition")
DecomposeA ==
    Synth("a_decomposition", verify_decompose("a", "ae", "ao"), "b_decomposition")
DecomposeB ==
    Synth("b_decomposition", verify_decompose("b", "be", "bo"), "ae_plus_be")
AddE == Synth("ae_plus_be", add("ae", "be", "e"), "ao_plus_bo")
\* A mutant of the sixth step: be is added to ao, as its namespace label says.
AddO_be == Synth("ao_plus_bo", add("ao", "be", "o"), "e_decomposition")

AddO == Synth("ao_plus_bo", add("ao", "bo", "o"), "e_decomposition")
DecomposeE ==
    Synth("e_decomposition", verify_decompose("e", "ee", "eo"), "o_decomposition")
DecomposeO ==
    Synth("o_decomposition", verify_decompose("o", "oe", "oo"), "compose")
Compose == Synth("compose", compose("eo", "oo", "a_and_b"), "expose")
ExposePublic == Synth("expose", expose_public("a_and_b", 0), "verify")
\* The public input is an argument of MockProver::run that synthesize never
\* reads; it is drawn when verify reads the instance column.
Verify == \E p \in PubChoices(a, b) : Step("verify", verify(p), "done")

CircuitInit ==
    /\ pc = "alloc_table"
    /\ table = <<>>
    /\ tableBuilds = 0
    /\ advice = <<>>
    /\ selectors = {}
    /\ copies = {}
    /\ colNext = [c \in Columns |-> 0]
    /\ regions = <<>>
    /\ words = <<>>
    /\ err = "none"
    /\ failures = {}
    /\ result = "pending"

Init ==
    /\ a \in {Some(v) : v \in Words} \cup {None}
    /\ b \in {Some(v) : v \in Words} \cup {None}
    /\ pub = None
    /\ forge = None
    /\ fx = 0 /\ fop = "none" /\ fout = <<>>
    /\ CircuitInit

Next ==
    \/ AllocTable
    \/ LoadA
    \/ LoadB
    \/ DecomposeA
    \/ DecomposeB
    \/ AddE
    \/ AddO
    \/ DecomposeE
    \/ DecomposeO
    \/ Compose
    \/ ExposePublic
    \/ Verify

Spec == Init /\ [][Next]_vars

(***************************************************************************)
(* A single decompose region whose witness is chosen by the prover instead *)
(* of being computed by decompose: the constraint system of configure is   *)
(* checked against every (even, odd) near the line even + 2 * odd = c.     *)
(***************************************************************************)
ForgeLoad == Synth("load_a", load_private("c", a), "forge_decomposition")

ForgeDecompose ==
    Synth("forge_decomposition", decompose_region("c", "even", "odd", forge),
          "verify")

ForgeInit ==
    /\ a \in {Some(v) : v \in Words}
    /\ b = None
    /\ pub = None
    /\ forge \in {<<a[1] - 2 * odd + d, odd>> :
                    odd \in 0 .. MaxForgeOdd, d \in (-ForgeSlack) .. ForgeSlack}
    /\ fx = 0 /\ fop = "none" /\ fout = <<>>
    /\ CircuitInit

ForgeNext ==
    \/ AllocTable
    \/ ForgeLoad
    \/ ForgeDecompose
    \/ Verify

ForgeSpec == ForgeInit /\ [][ForgeNext]_vars

(***************************************************************************)
(* The pure functions applied to inputs drawn from bounded ranges.         *)
(***************************************************************************)
FnDecompose ==
    /\ fop = "none"
    /\ fop' = "decompose"
    /\ fout' = decompose(fx)
    /\ UNCHANGED <<fx, a, b, pub, pc, forge, circuitVars>>

\* compose applied to the pair decompose returned.
FnCompose ==
    /\ fop = "decompose"
    /\ fop' = "compose"
    /\ fout' = <<compose_value(fout[1], fout[2])>>
    /\ UNCHANGED <<fx, a, b, pub, pc, forge, circuitVars>>

FnEvenBitsAt ==
    /\ fop = "none"
    /\ fx < 2^SpreadBits
    /\ fop' = "even_bits_at"
    /\ fout' = <<even_bits_at(fx)>>
    /\ UNCHANGED <<fx, a, b, pub, pc, forge, circuitVars>>

FnInit ==
    /\ fx \in 0 .. (2^FnBits - 1)
    /\ fop = "none"
    /\ fout = <<>>
    /\ a = None /\ b = None /\ pub = None /\ forge = None
    /\ CircuitInit

FnNext ==
    \/ FnDecompose
    \/ FnCompose
    \/ FnEvenBitsAt

FnSpec == FnInit /\ [][FnNext]_vars

(***************************************************************************)
(* The run of the circuit with a private input that is not a W-bit word:   *)
(* MyCircuit takes any Fp, and nothing before synthesize checks its range. *)
(***************************************************************************)
\* Private inputs at or above 2^W: the values just above the range, and
\* single high bits with the low byte empty, alternating or full.
OverInputs ==
    {2^WORD_BITS + i : i \in 0 .. MaxOver}
    \cup {2^n + m : n \in (WORD_BITS + 1) .. MaxOverBits, m \in {0, 85, 170, 255}}

\* The public inputs tried against such a run: the neighbours of the value
\* the compose output cell holds, and those of the integer a & b.
OverPubChoices ==
    {words["a_and_b"].value + d : d \in (-MaxPubOff) .. MaxPubOff}
    \cup PubChoices(a, b)

VerifyOver ==
    /\ pc = "verify"
    /\ \E p \in OverPubChoices : Step("verify", verify(p), "done")

OverInit ==
    /\ \E x \in OverInputs, y \in Words \cup OverInputs :
          \/ a = Some(x) /\ b = Some(y)
          \/ a = Some(y) /\ b = Some(x)
    /\ pub = None
    /\ forge = None
    /\ fx = 0 /\ fop = "none" /\ fout = <<>>
    /\ CircuitInit

OverNext ==
    \/ AllocTable
    \/ LoadA
    \/ LoadB
    \/ DecomposeA
    \/ DecomposeB
    \/ AddE
    \/ AddO
    \/ DecomposeE
    \/ DecomposeO
    \/ Compose
    \/ ExposePublic
    \/ VerifyOver

OverSpec == OverInit /\ [][OverNext]_vars

(***************************************************************************)
(* Properties.                                                             *)
(***************************************************************************)
\* Binary digit k of a non-negative integer.
Bit(x, k) == (x \div 2^k) % 2

\* The 2-bit digit slot [2k, 2k+1] of a non-negative integer.
Slot(x, k) == (x \div 4^k) % 4

\* (even, odd) is the per-bit split of c: even holds the even-position bits
\* of c in place, odd holds the odd-position bits of c moved down by one.
PerBitSplit(c, even, odd, bits) ==
    /\ even >= 0 /\ odd >= 0
    /\ even < 2^bits /\ odd < 2^bits
    /\ \A k \in 0 .. (bits - 1) :
          /\ Bit(even, k) = (IF k % 2 = 0 THEN Bit(c, k) ELSE 0)
          /\ Bit(odd, k) = (IF k % 2 = 0 THEN Bit(c, k + 1) ELSE 0)

Present == a # None /\ b # None

InstanceBinding == <<words["a_and_b"].cell, <<"instance", 0>>>>

\* C1: for all W-bit a and b, the run with private inputs (a, b) and public
\* input a & b is accepted: verify reports no gate, lookup or equality
\* failure for the witness synthesize computes, the compose output being bound
\* to instance row 0.
C1_CorrectAndAccepted ==
    (pc = "done" /\ Present /\ pub = Some(BitAnd(a[1], b[1])))
        => /\ result = "accepted"
           /\ failures = {}
           /\ InstanceBinding \in copies
           /\ words["a_and_b"].value = BitAnd(a[1], b[1])

C1_Witness ==
    /\ pc = "done"
    /\ a = Some(7) /\ b = Some(6) /\ pub = Some(6)
    /\ result = "accepted"

\* C2: for all W-bit a and b, the run with a public input other than a & b is
\* rejected, the violated constraint being the equality between the compose
\* output cell and instance row 0.
C2_WrongPublicRejected ==
    (pc = "done" /\ Present /\ pub # Some(BitAnd(a[1], b[1])))
        => /\ result = "rejected"
           /\ failures = {<<"permutation", InstanceBinding[1], InstanceBinding[2]>>}

C2_Witness ==
    /\ pc = "done"
    /\ a = Some(3) /\ b = Some(4) /\ pub = Some(1)
    /\ result = "rejected"

\* C3: in a decompose region a witness whose even or odd component is not in
\* the table is rejected by the lookup of that column, also when
\* c = even + 2 * odd holds; the only (even, odd) accepted for c is the
\* per-bit split of c.
C3_LookupSoundness ==
    (pc = "done" /\ forge # None)
        => /\ forge[1] \notin Range(table)
                => /\ result = "rejected"
                   /\ <<"lookup", "advice0", words["even"].cell[2]>> \in failures
           /\ forge[2] \notin Range(table)
                => /\ result = "rejected"
                   /\ <<"lookup", "advice1", words["odd"].cell[2]>> \in failures
           /\ result = "accepted"
                => PerBitSplit(a[1], forge[1], forge[2], WORD_BITS)

C3_Witness ==
    /\ pc = "done"
    /\ forge # None
    /\ forge[1] + 2 * forge[2] = a[1]
    /\ forge[1] \in Range(table)
    /\ forge[2] \notin Range(table)
    /\ result = "rejected"

\* C4: with private input a or b absent, synthesis fails with
\* Error::Synthesis in the load_private of the first absent input: no region
\* after the loads that succeeded is assigned, no selector is enabled, no
\* constraint is added and verify never runs.
C4_AbsentInputAborts ==
    /\ (a = None /\ pc \notin {"alloc_table", "load_a"})
          => /\ pc = "failed" /\ err = "Synthesis"
             /\ regions = <<>>
    /\ (a # None /\ b = None /\ pc \notin {"alloc_table", "load_a", "load_b"})
          => /\ pc = "failed" /\ err = "Synthesis"
             /\ regions = <<"load private">>
    /\ pc = "failed"
          => /\ ~Present
             /\ selectors = {} /\ copies = {}
             /\ result = "pending" /\ failures = {} /\ pub = None
    /\ (err = "Synthesis") = (pc = "failed")

C4_Witness ==
    /\ pc = "failed"
    /\ a = Some(5) /\ b = None
    /\ err = "Synthesis"
    /\ regions = <<"load private">>

\* C5: decompose(x) is the per-bit split of x: the even-position bits kept in
\* place and the odd-position bits shifted down by one;
\* decompose(0xAAAA) = (0, 0x5555) and decompose(0x5555) = (0x5555, 0).
C5_DecomposeBits ==
    fop = "decompose"
        => /\ PerBitSplit(fx, fout[1], fout[2], FnBits)
           /\ fx = 43690 => fout = <<0, 21845>>
           /\ fx = 21845 => fout = <<21845, 0>>

C5_Witness == fop = "decompose" /\ fx = 43690 /\ fout = <<0, 21845>>

\* C6: composing the two outputs of decompose(x) gives x back.
C6_RoundTrip == fop = "compose" => fout = <<fx>>

C6_Witness == fop = "compose" /\ fx = 2^WORD_BITS - 1 /\ fout = <<2^WORD_BITS - 1>>

\* C7: even_bits_at(i) has binary digit k of i at bit position 2k and zero at
\* every odd position, is strictly increasing, and maps 0, 1, 2, 3 to
\* 0b0, 0b1, 0b100, 0b101.
C7_Spread ==
    fop = "even_bits_at"
        => /\ \A k \in 0 .. SpreadBits :
                 /\ Bit(fout[1], 2 * k) = Bit(fx, k)
                 /\ Bit(fout[1], 2 * k + 1) = 0
           /\ \A j \in 0 .. (fx - 1) : even_bits_at(j) < fout[1]
           /\ fx = 0 => fout[1] = 0
           /\ fx = 1 => fout[1] = 1
           /\ fx = 2 => fout[1] = 4
           /\ fx = 3 => fout[1] = 5

C7_Witness == fop = "even_bits_at" /\ fx = 3 /\ fout = <<5>>

\* The regions of a successful synthesis, in order.
PipelineOrder ==
    <<"load private", "load private", "decompose", "decompose", "add", "add",
      "decompose", "decompose", "compose">>

\* The cells of the region whose first row holds cell `first` / whose second
\* row holds cell `second`.
Below(first) == <<"advice0", first[2] + 1>>
AboveLeft(second) == <<"advice0", second[2] - 1>>
AboveRight(second) == <<"advice1", second[2] - 1>>

\* The equality constraints of the pipeline: each region's inputs are copies
\* of the Words the fixed wiring hands it.
PipelineWiring ==
    {<<words["a"].cell, Below(words["ae"].cell)>>,
     <<words["b"].cell, Below(words["be"].cell)>>,
     <<words["ae"].cell, AboveLeft(words["e"].cell)>>,
     <<words["be"].cell, AboveRight(words["e"].cell)>>,
     <<words["ao"].cell, AboveLeft(words["o"].cell)>>,
     <<words["bo"].cell, AboveRight(words["o"].cell)>>,
     <<words["e"].cell, Below(words["ee"].cell)>>,
     <<words["o"].cell, Below(words["oe"].cell)>>,
     <<words["eo"].cell, AboveLeft(words["a_and_b"].cell)>>,
     <<words["oo"].cell, AboveRight(words["a_and_b"].cell)>>}

\* The Words in the order their regions are assigned.
WordOrder == <<"a", "b", "ae", "be", "e", "o", "ee", "oe", "a_and_b">>

\* C8: the table is built exactly once, before any region; a successful
\* synthesis assigns exactly the 9 regions load a, load b, decompose a,
\* decompose b, add(ae, be), add(ao, bo), decompose e, decompose o,
\* compose(eo, oo) in this order, then binds the compose output to instance
\* row 0 exactly once.
C8_FixedPipeline ==
    /\ tableBuilds = (IF pc = "alloc_table" THEN 0 ELSE 1)
    /\ regions # <<>> => tableBuilds = 1
    /\ Len(regions) <= Len(PipelineOrder)
    /\ regions = SubSeq(PipelineOrder, 1, Len(regions))
    /\ pc \in {"expose", "verify", "done"}
          => /\ regions = PipelineOrder
             /\ \A i \in 1 .. (Len(WordOrder) - 1) :
                   words[WordOrder[i]].cell[2] < words[WordOrder[i + 1]].cell[2]
             /\ copies \ {InstanceBinding} = PipelineWiring
             /\ (InstanceBinding \in copies) = (pc # "expose")
             /\ Cardinality(copies) =
                   Cardinality(PipelineWiring) + (IF pc = "expose" THEN 0 ELSE 1)

C8_Witness ==
    /\ pc = "verify"
    /\ regions = PipelineOrder
    /\ tableBuilds = 1
    /\ InstanceBinding \in copies

\* The rows the regions of the pipeline occupy.
PipelineRows == Max({colNext[c] : c \in Columns})

\* C9 as stated: 2^k is at least the table rows plus 2 rows for each of the
\* 9 regions.
C9_TwoRowsPerRegion ==
    pc = "done" => 2^K >= Len(table) + 2 * Len(regions)

\* C9: for W = 8, k = 5 suffices: 2^k is at least the table rows, 2^(W/2),
\* plus the rows of the pipeline, which are 1 for each of the two load
\* regions and 2 for each of the other 7 regions.
C9_RowsSuffice ==
    pc \in {"expose", "verify", "done"}
        => /\ Len(table) = 2^(WORD_BITS \div 2)
           /\ PipelineRows = 2 * 1 + 7 * 2
           /\ 2^K >= Len(table) + PipelineRows

C9_Witness ==
    /\ pc = "done"
    /\ Len(regions) = 9
    /\ Len(table) + PipelineRows = 2^K

\* C10: every 2-bit digit slot of e = ae + be and of o = ao + bo is the sum of
\* the two input bits at that position, so it is 0, 1 or 2 with no carry into
\* the next slot; the odd component of decompose(e) (of decompose(o)) has 1
\* in slot k exactly when that sum is 2, that is when both bits are 1.
C10_SlotSums ==
    ({"eo", "oo"} \subseteq DOMAIN words /\ Present)
        => /\ words["e"].value < 4^(WORD_BITS \div 2)
           /\ words["o"].value < 4^(WORD_BITS \div 2)
           /\ words["eo"].value < 4^(WORD_BITS \div 2)
           /\ words["oo"].value < 4^(WORD_BITS \div 2)
           /\ \A k \in 0 .. (WORD_BITS \div 2 - 1) :
                 /\ Slot(words["e"].value, k)
                       = Bit(a[1], 2 * k) + Bit(b[1], 2 * k)
                 /\ Slot(words["o"].value, k)
                       = Bit(a[1], 2 * k + 1) + Bit(b[1], 2 * k + 1)
                 /\ Slot(words["e"].value, k) \in {0, 1, 2}
                 /\ Slot(words["o"].value, k) \in {0, 1, 2}
                 /\ Slot(words["eo"].value, k)
                       = (IF Slot(words["e"].value, k) = 2 THEN 1 ELSE 0)
                 /\ Slot(words["oo"].value, k)
                       = (IF Slot(words["o"].value, k) = 2 THEN 1 ELSE 0)
                 /\ (Slot(words["eo"].value, k) = 1)
                       = (Bit(a[1], 2 * k) = 1 /\ Bit(b[1], 2 * k) = 1)
                 /\ (Slot(words["oo"].value, k) = 1)
                       = (Bit(a[1], 2 * k + 1) = 1 /\ Bit(b[1], 2 * k + 1) = 1)

C10_Witness ==
    /\ pc = "compose"
    /\ a = Some(7) /\ b = Some(6)
    /\ words["e"].value = 9
    /\ words["eo"].value = 4
    /\ words["o"].value = 2
    /\ words["oo"].value = 1

\* The decompose region whose even component is Word `even` fails one of its
\* two lookups or its gate.
DecomposeFails(even) ==
    LET r == words[even].cell[2]
    IN  \/ <<"lookup", "advice0", r>> \in failures
        \/ <<"lookup", "advice1", r>> \in failures
        \/ <<"gate", "decompose", r>> \in failures

\* C11: with a private input a or b at or above 2^W the witness synthesize
\* computes is rejected for every public input: the decompose region of that
\* input fails a lookup or its gate.  The load regions carry no selector, so
\* nothing but the decompose region checks the range of an input.
C11_RangeEnforced ==
    pc = "done"
        => /\ \A s \in selectors :
                 s[2] \notin {words["a"].cell[2], words["b"].cell[2]}
           /\ (Present /\ a[1] >= 2^WORD_BITS)
                 => (result = "rejected" /\ DecomposeFails("ae"))
           /\ (Present /\ b[1] >= 2^WORD_BITS)
                 => (result = "rejected" /\ DecomposeFails("be"))
           /\ (Present /\ a[1] < 2^WORD_BITS)
                 => ~DecomposeFails("ae")
           /\ (Present /\ b[1] < 2^WORD_BITS)
                 => ~DecomposeFails("be")

C11_Witness ==
    /\ pc = "done"
    /\ a = Some(2^WORD_BITS) /\ b = Some(0)
    /\ pub = Some(words["a_and_b"].value)
    /\ result = "rejected"
    /\ <<"lookup", "advice0", words["ae"].cell[2]>> \in failures
    /\ \A f \in failures : f[1] = "lookup"

====
